---- MODULE Spec2Model ----
(***************************************************************************)
(* TypeBuddy (src/script.js): the typing-test session and its passage      *)
(* cache, as a state machine.  One action per event the page handles: the  *)
(* settling of the quote fetch, a click on Start, a countdown interval     *)
(* tick, the "Go!" timeout (startTest), a test-timer tick, the edits of    *)
(* the text field (each followed by handleInput) and a click on Stop.      *)
(*                                                                         *)
(* Text is a sequence of one-character strings.  Passages are abbreviated  *)
(* to a few characters so that typing one to its end is within reach.      *)
(***************************************************************************)
EXTENDS Integers, Sequences, FiniteSets

VARIABLES
    cachedQuotes,          \* let cachedQuotes = []
    quotesReadyPromise,    \* "null" | "pending" | "resolved"
    awaitingStart,         \* click handlers suspended at `await quotesReadyPromise`
    currentQuote,          \* let currentQuote = ''
    timeLeft,              \* let timeLeft (Undefined until startTest)
    intervalId,            \* callback of the live interval behind intervalId, or "none"
    charIndex,
    errors,
    isTestActive,
    selectedMode,
    selectedTimer,
    levelSelect,           \* levelSelect.value as the last click read it
    textInputValue,        \* textInput.value
    textInputDisabled,     \* textInput.disabled
    startTestBtnDisabled,  \* startTestBtn.disabled
    stopTestBtnShown,      \* stopTestBtn.style.display = 'inline-block'
    countdowns,            \* countdowns[c]: live startCountdown closures whose count is c
    result,                \* what resultDisplay shows, and the inputs it was computed from
    lastEvent,             \* history: the event handled last
    fetchCycles,           \* history: batch fetches initiated (line 49)
    cacheAssignments,      \* history: assignments to cachedQuotes
    ticks,                 \* history: updateTimer calls since the last startTest
    fetchPc,               \* where fetchAndCacheQuotes is: "batch" | "details" | "shuffle" | "done"
    docs,                  \* data.docs: the kind of each listed document
    settled,               \* the state of each of detailPromises
    potentialQuotes,       \* potentialQuotes, the array shuffleArray permutes in place
    currentIndex,          \* shuffleArray's currentIndex
    fetchOutcome           \* history: the branch that assigned cachedQuotes, or "none"

vars == <<cachedQuotes, quotesReadyPromise, awaitingStart, currentQuote, timeLeft,
          intervalId, charIndex, errors, isTestActive, selectedMode, selectedTimer,
          levelSelect, textInputValue, textInputDisabled, startTestBtnDisabled, stopTestBtnShown,
          countdowns, result, lastEvent, fetchCycles, cacheAssignments, ticks,
          fetchPc, docs, settled, potentialQuotes, currentIndex, fetchOutcome>>

----------------------------------------------------------------------------
(* Bounds of the model *)

\* longest text the field holds
MaxTyped == 2
\* startCountdown closures alive at once
MaxCountdowns == 2
\* documents the batch response lists
NumDocs == 1
\* documents of a batch whose detail fetches are of every kind and settle in
\* every order
MaxBatch == 3

(* Program constants *)

MAX_CACHED_QUOTES == 20
\* line 87: cleanedText.length > 100
MIN_QUOTE_LENGTH == 100
COUNTDOWN_FROM == 3
EASY_SECONDS == 60
MEDIUM_SECONDS == 45
HARD_SECONDS == 30
\* the value of a `let` without initialiser, for the numeric timeLeft
Undefined == -1

Chars == {"a", "b"}
Levels == {"easy", "medium", "hard"}
\* modeSelect.value: 'invisible' (like any further option) differs from 'normal'
\* in a CSS class only
Modes == {"normal", "no-backspace", "story"}

\* endTime - startTime in milliseconds, as the environment's clock decides
\* (it may stand still)
DurationsMs == {0, 7000}

\* the durations of the scoring runs (the clock may also have been set back)
ScoreDurationsMs == {-1000, 0, 7000, 12000, 24000}

ClockDurationsMs == DurationsMs \cup ScoreDurationsMs

\* the passages and texts of the scoring scenarios
TheCatSat == <<"T", "h", "e", " ", "c", "a", "t", " ", "s", "a", "t", ".">>
HelloWorld == <<"H", "e", "l", "l", "o", " ", "w", "o", "r", "l", "d">>
HxlloWorld == <<"H", "x", "l", "l", "o", " ", "w", "o", "r", "l", "d">>

\* the longest text a run scores
MaxScoreLen == IF MaxTyped > Len(TheCatSat) THEN MaxTyped ELSE Len(TheCatSat)

\* The passages, abbreviated.
FallbackFetchError == <<"a", "a">>
\* one sentence for both failures
FallbackAsFetchError == FallbackFetchError
FallbackNoDocs == <<"b", "b">>
FallbackNoSuitable == <<"a", "b">>
FallbackEmptyCache == <<"a", "b", "b">>
\* cleaned text of document d's detail record
DocText(d) == IF d = 1 THEN <<"b", "a">> ELSE IF d = 2 THEN <<"b">> ELSE <<"a">>

----------------------------------------------------------------------------
(* Pure helpers *)

Min(a, b) == IF a < b THEN a ELSE b

\* the loop of handleInput, lines 300-305
RECURSIVE ErrorsFrom(_, _, _)
ErrorsFrom(typedText, quote, i) ==
    IF i > Len(typedText) THEN 0
    ELSE (IF i <= Len(quote) /\ typedText[i] # quote[i] THEN 1 ELSE 0)
         + ErrorsFrom(typedText, quote, i + 1)

\* a loop that runs one index too far: typedText[length] is undefined, never equal
RECURSIVE ErrorsFromOffByOne(_, _, _)
ErrorsFromOffByOne(typedText, quote, i) ==
    IF i > Len(typedText) + 1 THEN 0
    ELSE (IF i <= Len(quote) /\ (i > Len(typedText) \/ typedText[i] # quote[i]) THEN 1 ELSE 0)
         + ErrorsFromOffByOne(typedText, quote, i + 1)

CountErrorsOffByOne(typedText, quote) == ErrorsFromOffByOne(typedText, quote, 1)

CountErrors(typedText, quote) == ErrorsFrom(typedText, quote, 1)

\* the loop of endTest, lines 385-391
RECURSIVE CorrectFrom(_, _, _)
CorrectFrom(typedText, quote, i) ==
    IF i > Len(typedText) THEN 0
    ELSE (IF i <= Len(quote) /\ typedText[i] = quote[i] THEN 1 ELSE 0)
         + CorrectFrom(typedText, quote, i + 1)

CorrectChars(typedText, quote) == CorrectFrom(typedText, quote, 1)

----------------------------------------------------------------------------
(* JavaScript numbers.  endTest divides and multiplies IEEE-754 doubles and  *)
(* rounds the result with Math.round.  A positive double is [m, e] with      *)
(* 2^52 <= m < 2^53 and value m * 2^e; m is a natural number held as four    *)
(* limbs of 20 bits, least significant first.  Zero has m = 0.               *)

Limb == 2^20

Nat80(n) == <<n % Limb, n \div Limb, 0, 0>>

Zero80 == <<0, 0, 0, 0>>

TwoTo52 == <<0, 0, 2^12, 0>>

TwoTo53 == <<0, 0, 2^13, 0>>

\* 2 * a
Dbl(a) ==
    <<(2 * a[1]) % Limb,
      ((2 * a[2]) % Limb) + (a[1] \div (Limb \div 2)),
      ((2 * a[3]) % Limb) + (a[2] \div (Limb \div 2)),
      ((2 * a[4]) % Limb) + (a[3] \div (Limb \div 2))>>

\* a >= b, from the most significant limb down
RECURSIVE GeqFrom(_, _, _)
GeqFrom(a, b, i) ==
    IF i = 0 THEN TRUE
    ELSE IF a[i] # b[i] THEN a[i] > b[i]
    ELSE GeqFrom(a, b, i - 1)

Geq(a, b) == GeqFrom(a, b, 4)

\* a - b for a >= b
RECURSIVE SubFrom(_, _, _, _)
SubFrom(a, b, i, borrow) ==
    IF i > 4 THEN <<>>
    ELSE LET v == a[i] - b[i] - borrow
         IN  <<IF v < 0 THEN v + Limb ELSE v>> \o SubFrom(a, b, i + 1, IF v < 0 THEN 1 ELSE 0)

Sub(a, b) == SubFrom(a, b, 1, 0)

\* a * k + carry for k <= 2^10
RECURSIVE MulAddFrom(_, _, _, _)
MulAddFrom(a, k, i, carry) ==
    IF i > 4 THEN <<>>
    ELSE LET v == (a[i] * k) + carry
         IN  <<v % Limb>> \o MulAddFrom(a, k, i + 1, v \div Limb)

MulSmall(a, k) == MulAddFrom(a, k, 1, 0)

Inc(a) == MulAddFrom(a, 1, 1, 1)

\* a \div k for k <= 2^10, from the most significant limb down
RECURSIVE DivFrom(_, _, _, _)
DivFrom(a, k, i, rem) ==
    IF i = 0 THEN <<>>
    ELSE LET v == (rem * Limb) + a[i]
         IN  DivFrom(a, k, i - 1, v % k) \o <<v \div k>>

DivSmall(a, k) == DivFrom(a, k, 4, 0)

\* number of significant bits
BitLen20(x) == CHOOSE k \in 0..20 : IF k = 0 THEN x = 0 ELSE 2^(k - 1) <= x /\ x < 2^k

BitLen(a) ==
    IF a[4] # 0 THEN 60 + BitLen20(a[4])
    ELSE IF a[3] # 0 THEN 40 + BitLen20(a[3])
    ELSE IF a[2] # 0 THEN 20 + BitLen20(a[2])
    ELSE BitLen20(a[1])

\* a * 2^n for n < 80, whole limbs first (the product below 2^80)
ShiftLeft(a, n) ==
    LET limbs == n \div 20
        bits == n % 20
        low == IF bits < 10 THEN bits ELSE 10
        moved == SubSeq(Zero80, 1, limbs) \o SubSeq(a, 1, 4 - limbs)
    IN  MulSmall(MulSmall(moved, 2^low), 2^(bits - low))

\* a \div 2^n
ShiftRight(a, n) ==
    IF n >= 80 THEN Zero80
    ELSE LET limbs == n \div 20
             bits == n % 20
             low == IF bits < 10 THEN bits ELSE 10
             moved == SubSeq(a, limbs + 1, 4) \o SubSeq(Zero80, 1, limbs)
         IN  DivSmall(DivSmall(moved, 2^low), 2^(bits - low))

\* The double nearest to (q + d) * 2^e, ties to even, where 0 <= d < 1 and
\* d > 0 iff sticky.  A q of at most 53 bits is exact (no sticky).
RoundToDouble(q, e, sticky) ==
    IF q = Zero80 THEN [m |-> Zero80, e |-> 0]
    ELSE IF BitLen(q) <= 53
    THEN [m |-> ShiftLeft(q, 53 - BitLen(q)), e |-> e - (53 - BitLen(q))]
    ELSE LET s == BitLen(q) - 53
             kept == ShiftRight(q, s)
             rest == Sub(q, ShiftLeft(kept, s))
             half == ShiftLeft(Nat80(1), s - 1)
             up == IF rest = half THEN sticky \/ kept[1] % 2 = 1 ELSE Geq(rest, half)
             m == IF up THEN Inc(kept) ELSE kept
         IN  IF m = TwoTo53 THEN [m |-> TwoTo52, e |-> e + s + 1] ELSE [m |-> m, e |-> e + s]

\* an integer 0 <= n < 2^31 as a double (exact)
FromInt(n) == RoundToDouble(Nat80(n), 0, FALSE)

\* one more quotient bit of s.r / d by long division
DivBit(s, d) ==
    IF Geq(Dbl(s.r), d)
    THEN [q |-> Inc(Dbl(s.q)), r |-> Sub(Dbl(s.r), d)]
    ELSE [q |-> Dbl(s.q), r |-> Dbl(s.r)]

\* n more quotient bits, half of them at a time; once the division is exact
\* the remaining bits are 0
RECURSIVE DivBits(_, _, _)
DivBits(s, d, n) ==
    IF n = 1 THEN DivBit(s, d)
    ELSE LET h == DivBits(s, d, n \div 2)
         IN  IF h.r = Zero80
             THEN [q |-> ShiftLeft(h.q, n - (n \div 2)), r |-> Zero80]
             ELSE DivBits(h, d, n - (n \div 2))

\* x / y for doubles x >= 0, y > 0: the quotient of the significands to 55
\* fraction bits, the remainder as sticky, rounded to nearest
FDiv(x, y) ==
    IF x.m = Zero80 THEN x
    ELSE LET first == IF Geq(x.m, y.m) THEN [q |-> Nat80(1), r |-> Sub(x.m, y.m)]
                      ELSE [q |-> Zero80, r |-> x.m]
             qr == DivBits(first, y.m, 55)
         IN  RoundToDouble(qr.q, x.e - y.e - 55, qr.r # Zero80)

\* x * k for a double x >= 0 and an integer 0 < k <= 2^7
FMulInt(x, k) ==
    IF x.m = Zero80 THEN x ELSE RoundToDouble(MulSmall(x.m, k), x.e, FALSE)

\* Math.round(x) for a double 0 <= x < 2^30: floor(x + 1/2), from floor(2x)
MathRound(x) ==
    IF x.m = Zero80 THEN 0
    ELSE LET twice == ShiftRight(x.m, -(x.e + 1))
         IN  (twice[1] + (twice[2] * Limb) + 1) \div 2

\* lines 380, 394-402: duration = ms / 1000, timeInMinutes = duration / 60,
\* wpm = Math.round((correctChars / 5) / timeInMinutes) if timeInMinutes > 0
WpmOf(correctChars, durationMs) ==
    IF durationMs > 0
    THEN MathRound(FDiv(FDiv(FromInt(correctChars), FromInt(5)),
                        FDiv(FDiv(FromInt(durationMs), FromInt(1000)), FromInt(60))))
    ELSE 0

\* lines 403-406: Math.round((correctChars / totalTypedChars) * 100)
AccuracyOf(correctChars, totalTypedChars) ==
    IF totalTypedChars > 0
    THEN MathRound(FMulInt(FDiv(FromInt(correctChars), FromInt(totalTypedChars)), 100))
    ELSE 0

\* The figures for every count and duration the model meets, computed once.
ScoreCounts == 0..MaxScoreLen

WpmTable == [c \in ScoreCounts |-> [d \in ClockDurationsMs |-> WpmOf(c, d)]]

AccuracyTable == [c \in ScoreCounts |-> [n \in ScoreCounts |-> AccuracyOf(c, n)]]

Wpm(correctChars, durationMs) == WpmTable[correctChars][durationMs]

Accuracy(correctChars, totalTypedChars) == AccuracyTable[correctChars][totalTypedChars]

\* resultDisplay.innerText = ''
NoResult == [shown |-> FALSE, wpm |-> 0, accuracy |-> 0, errors |-> 0,
             correctChars |-> 0, totalTypedChars |-> 0, durationMs |-> 0]

\* line 425
LevelSeconds(level) ==
    IF level = "easy" THEN EASY_SECONDS
    ELSE IF level = "medium" THEN MEDIUM_SECONDS ELSE HARD_SECONDS

NumCountdowns == countdowns[0] + countdowns[1] + countdowns[2] + countdowns[3]

NoCountdowns == [c \in 0..COUNTDOWN_FROM |-> 0]

----------------------------------------------------------------------------
(* The initial state: the script has run to its last line, which calls       *)
(* fetchAndCacheQuotes(); that call has disabled the Start button and is      *)
(* suspended at `await fetch(API_URL)`.  Whether the page's markup disables   *)
(* the text field is not in the script, so both are initial states.           *)

Init ==
    /\ cachedQuotes = <<>>
    /\ quotesReadyPromise = "pending"
    /\ awaitingStart = 0
    /\ currentQuote = <<>>
    /\ timeLeft = Undefined
    /\ intervalId = "none"
    /\ charIndex = 0
    /\ errors = 0
    /\ isTestActive = FALSE
    /\ selectedMode = "normal"
    /\ selectedTimer = EASY_SECONDS
    /\ levelSelect = "easy"
    /\ textInputValue = <<>>
    /\ textInputDisabled \in BOOLEAN
    /\ startTestBtnDisabled = TRUE
    /\ stopTestBtnShown = FALSE
    /\ countdowns = NoCountdowns
    /\ result = NoResult
    /\ lastEvent = "load"
    /\ fetchCycles = 1
    /\ cacheAssignments = 0
    /\ ticks = 0
    /\ fetchPc = "batch"
    /\ docs = <<>>
    /\ settled = <<>>
    /\ potentialQuotes = <<>>
    /\ currentIndex = 0
    /\ fetchOutcome = "none"

----------------------------------------------------------------------------
(* fetchAndCacheQuotes *)

Docs == 1..NumDocs

\* the orders shuffleArray can leave the survivors in
Orderings(S) ==
    {s \in [1..Cardinality(S) -> S] : \A i, j \in 1..Cardinality(S) : s[i] = s[j] => i = j}

\* a cache assigned without the slice
SliceNone(s, n) == s

\* .slice(0, MAX_CACHED_QUOTES)
Slice(s, n) == SubSeq(s, 1, Min(Len(s), n))

\* a catch that leaves the cache as it was, empty
CachesAfterSilentCatch(outcome, survivors) ==
    IF outcome = "error" THEN {<<>>}
    ELSE IF outcome = "nodocs" THEN {<<FallbackNoDocs>>}
    ELSE IF survivors = {} THEN {<<FallbackNoSuitable>>}
    ELSE {<<DocText(d)>> : d \in survivors}

\* What the cycle assigns to cachedQuotes.  outcome: the batch fetch threw
\* ("error"), listed no documents ("nodocs"), or listed Docs ("docs"), of which
\* the detail fetches of `survivors` returned a text longer than the minimum.
CachesAfter(outcome, survivors) ==
    IF outcome = "error" THEN {<<FallbackFetchError>>}
    ELSE IF outcome = "nodocs" THEN {<<FallbackNoDocs>>}
    ELSE IF survivors = {} THEN {<<FallbackNoSuitable>>}
    ELSE {Slice([i \in 1..Len(o) |-> DocText(o[i])], MAX_CACHED_QUOTES) : o \in Orderings(survivors)}

\* startCountdown(), called n times in a row
StartCountdowns(n) ==
    /\ textInputValue' = <<>>
    /\ textInputDisabled' = TRUE
    /\ countdowns' = [countdowns EXCEPT ![COUNTDOWN_FROM] = @ + n]

\* The session's globals that fetchAndCacheQuotes leaves alone
FetchFrame ==
    UNCHANGED <<currentQuote, timeLeft, intervalId, charIndex, errors, isTestActive,
                selectedMode, selectedTimer, levelSelect, stopTestBtnShown, result,
                fetchCycles, ticks>>

\* The end of the cycle: cachedQuotes is assigned on the branch `outcome`,
\* `finally` re-enables Start, the promise resolves and every click handler
\* awaiting it goes on to startCountdown().
FetchDone(cache, outcome) ==
    /\ cachedQuotes' = cache
    /\ fetchOutcome' = outcome
    /\ cacheAssignments' = cacheAssignments + 1
    /\ startTestBtnDisabled' = FALSE
    /\ quotesReadyPromise' = "resolved"
    /\ fetchPc' = "done"
    /\ awaitingStart' = 0
    /\ IF awaitingStart > 0
       THEN StartCountdowns(awaitingStart)
       ELSE UNCHANGED <<textInputValue, textInputDisabled, countdowns>>
    /\ lastEvent' = "fetchSettled"
    /\ FetchFrame

\* The whole cycle in one step, for the session: the batch fetch threw
\* ("error"), listed no documents ("nodocs"), or listed Docs, of which the
\* detail fetches of `survivors` returned a text longer than the minimum
\* ("nosuitable" if none did, else "docs").
FetchSettle ==
    /\ fetchPc = "batch"
    /\ quotesReadyPromise = "pending"
    /\ \E outcome \in {"error", "nodocs", "docs"}, survivors \in SUBSET Docs :
          /\ outcome # "docs" => survivors = {}
          /\ \E cache \in CachesAfter(outcome, survivors) :
                FetchDone(cache, IF outcome = "docs" /\ survivors = {}
                                 THEN "nosuitable" ELSE outcome)
    /\ UNCHANGED <<docs, settled, potentialQuotes, currentIndex>>

----------------------------------------------------------------------------
(* fetchAndCacheQuotes step by step: the batch response, each detail fetch, *)
(* the join of Promise.allSettled, the iterations of shuffleArray (each     *)
(* with its own Math.random()) and the assignment of the cache.             *)

\* What a listed document leads to: the array element is null ("null"), it
\* has no key ("nokey"), its detail fetch fails or answers with an error
\* status or a body that is no JSON ("httpError"), the record has neither
\* description nor excerpt ("noText"), or it has a text whose cleaned length
\* is the minimum ("short") or above it ("long").
DocKinds == {"null", "nokey", "httpError", "noText", "short", "long"}

CleanedLength(kind) ==
    IF kind = "long" THEN MIN_QUOTE_LENGTH + 1
    ELSE IF kind = "short" THEN MIN_QUOTE_LENGTH ELSE 0

\* line 87
KeepsText(length) == length > MIN_QUOTE_LENGTH

\* The batches: every short one, and full ones of long texts that reach and
\* pass the capacity of the cache.
Batches ==
    UNION {[1..n -> DocKinds] : n \in 0..MaxBatch}
        \cup {[i \in 1..n |-> "long"] : n \in {MAX_CACHED_QUOTES, MAX_CACHED_QUOTES + 1}}

\* The state of a document's promise when docs.map returns: the callback
\* throws at doc.key (outside its try), returns null, or awaits its fetch.
SettledAtOnce(kind) ==
    IF kind = "null" THEN "rejected" ELSE IF kind = "nokey" THEN "null" ELSE "pending"

\* what an awaited detail fetch fulfils its promise with (lines 58-96)
DetailResult(kind) ==
    IF kind \in {"short", "long"} /\ KeepsText(CleanedLength(kind)) THEN "text" ELSE "null"

\* a join that takes the results as they are
AllHaveSettledEarly(st) == TRUE

\* line 107: Promise.allSettled resolves once no promise is pending
AllHaveSettled(st) == \A i \in DOMAIN st : st[i] # "pending"

\* lines 108-112: the fulfilled non-null values, in the order of docs
RECURSIVE PushedFrom(_, _)
PushedFrom(st, i) ==
    IF i > Len(st) THEN <<>>
    ELSE (IF st[i] = "text" THEN <<DocText(i)>> ELSE <<>>) \o PushedFrom(st, i + 1)

\* a swap that copies one way only
HalfSwapped(array, i, j) == [array EXCEPT ![i] = array[j]]

\* line 145: [array[i], array[j]] = [array[j], array[i]]
Swapped(array, i, j) == [array EXCEPT ![i] = array[j], ![j] = array[i]]

\* what a step inside the cycle leaves alone
FetchPending ==
    /\ FetchFrame
    /\ UNCHANGED <<cachedQuotes, cacheAssignments, startTestBtnDisabled, quotesReadyPromise,
                   awaitingStart, textInputValue, textInputDisabled, countdowns, fetchOutcome>>

\* fetch(API_URL) rejects, response.json() throws, data has no docs property
\* to read or docs.map is no function: the catch of line 126
BatchFails ==
    /\ fetchPc = "batch"
    /\ FetchDone(<<FallbackFetchError>>, "error")
    /\ UNCHANGED <<docs, settled, potentialQuotes, currentIndex>>

\* The batch response arrives (lines 50-105): without documents the fallback
\* of line 124; else docs.map starts every detail fetch.
BatchArrives ==
    /\ fetchPc = "batch"
    /\ \E batch \in Batches :
          IF Len(batch) = 0
          THEN /\ FetchDone(<<FallbackNoDocs>>, "nodocs")
               /\ UNCHANGED <<docs, settled, potentialQuotes, currentIndex>>
          ELSE /\ docs' = batch
               /\ settled' = [i \in 1..Len(batch) |-> SettledAtOnce(batch[i])]
               /\ fetchPc' = "details"
               /\ lastEvent' = "batchArrived"
               /\ FetchPending
               /\ UNCHANGED <<potentialQuotes, currentIndex>>

\* The detail fetch of document i settles.  Responses overtake each other,
\* but none overtakes MaxBatch or more earlier ones.
DetailSettles(i) ==
    /\ fetchPc = "details"
    /\ i \in DOMAIN settled
    /\ settled[i] = "pending"
    /\ Cardinality({j \in 1..(i - 1) : settled[j] = "pending"}) < MaxBatch
    /\ settled' = [settled EXCEPT ![i] = DetailResult(docs[i])]
    /\ lastEvent' = "detailSettled"
    /\ FetchPending
    /\ UNCHANGED <<fetchPc, docs, potentialQuotes, currentIndex>>

\* Promise.allSettled resolves (lines 107-121): the results are pushed; with
\* none the fallback of line 120, else shuffleArray begins.
AllSettled ==
    /\ fetchPc = "details"
    /\ AllHaveSettled(settled)
    /\ IF Len(PushedFrom(settled, 1)) > 0
       THEN /\ potentialQuotes' = PushedFrom(settled, 1)
            /\ currentIndex' = Len(PushedFrom(settled, 1))
            /\ fetchPc' = "shuffle"
            /\ lastEvent' = "allSettled"
            /\ FetchPending
            /\ UNCHANGED <<docs, settled>>
       ELSE /\ FetchDone(<<FallbackNoSuitable>>, "nosuitable")
            /\ UNCHANGED <<docs, settled, potentialQuotes, currentIndex>>

\* One iteration of shuffleArray's loop (lines 140-146), randomIndex being
\* Math.floor(Math.random() * currentIndex); indices here count from 1.
ShuffleStep ==
    /\ fetchPc = "shuffle"
    /\ currentIndex # 0
    /\ \E randomIndex \in 0..(currentIndex - 1) :
          potentialQuotes' = Swapped(potentialQuotes, currentIndex, randomIndex + 1)
    /\ currentIndex' = currentIndex - 1
    /\ lastEvent' = "shuffleStep"
    /\ FetchPending
    /\ UNCHANGED <<fetchPc, docs, settled>>

\* shuffleArray returns: line 116 and the finally
CacheAssigned ==
    /\ fetchPc = "shuffle"
    /\ currentIndex = 0
    /\ FetchDone(Slice(potentialQuotes, MAX_CACHED_QUOTES), "docs")
    /\ UNCHANGED <<docs, settled, potentialQuotes, currentIndex>>

FetchNext ==
    \/ BatchFails
    \/ BatchArrives
    \/ \E i \in 1..(MAX_CACHED_QUOTES + 1) : DetailSettles(i)
    \/ AllSettled
    \/ ShuffleStep
    \/ CacheAssigned

----------------------------------------------------------------------------
(* The Start button *)

\* what the session's handlers leave alone of the fetch cycle
SessionFrame ==
    UNCHANGED <<fetchPc, docs, settled, potentialQuotes, currentIndex, fetchOutcome>>

\* a click that finds nothing to wait for and begins a cycle regardless
StartsFetchCycleAlways(promise, cache) == TRUE

\* Whether a click begins a network fetch: the listener calls
\* fetchAndCacheQuotes() only without a promise (line 430), and that call goes
\* to the network only with an empty cache (line 40).
StartsFetchCycle(promise, cache) == promise = "null" /\ Len(cache) = 0

StartTestBtnClick(level, mode) ==
    /\ ~startTestBtnDisabled
    /\ NumCountdowns + awaitingStart < MaxCountdowns
    /\ levelSelect' = level
    /\ selectedTimer' = LevelSeconds(level)
    /\ selectedMode' = mode
    /\ IF StartsFetchCycle(quotesReadyPromise, cachedQuotes)
       THEN /\ fetchCycles' = fetchCycles + 1
            /\ startTestBtnDisabled' = TRUE
            /\ quotesReadyPromise' = "pending"
            /\ awaitingStart' = awaitingStart + 1
            /\ UNCHANGED <<textInputValue, textInputDisabled, countdowns>>
       ELSE IF quotesReadyPromise = "pending"
       THEN /\ awaitingStart' = awaitingStart + 1
            /\ UNCHANGED <<fetchCycles, startTestBtnDisabled, quotesReadyPromise,
                           textInputValue, textInputDisabled, countdowns>>
       ELSE /\ quotesReadyPromise' = "resolved"
            /\ StartCountdowns(1)
            /\ UNCHANGED <<fetchCycles, startTestBtnDisabled, awaitingStart>>
    /\ lastEvent' = "startClick"
    /\ SessionFrame
    /\ UNCHANGED <<cachedQuotes, currentQuote, timeLeft, intervalId, charIndex, errors,
                   isTestActive, stopTestBtnShown, result, cacheAssignments, ticks>>

----------------------------------------------------------------------------
(* startCountdown's interval and timeout *)

\* The interval callback of a countdown whose count is c: count--, and at 0
\* "Go!", clearInterval and the 500 ms timeout (kept as count 0).
CountdownTick(c) ==
    /\ c \in 1..COUNTDOWN_FROM
    /\ countdowns[c] > 0
    /\ countdowns' = [countdowns EXCEPT ![c] = @ - 1, ![c - 1] = @ + 1]
    /\ lastEvent' = "countdownTick"
    /\ SessionFrame
    /\ UNCHANGED <<cachedQuotes, quotesReadyPromise, awaitingStart, currentQuote, timeLeft,
                   intervalId, charIndex, errors, isTestActive, selectedMode, selectedTimer,
                   levelSelect, textInputValue, textInputDisabled, startTestBtnDisabled,
                   stopTestBtnShown, result, fetchCycles, cacheAssignments, ticks>>

\* a draw that takes the else branch whatever the cache holds
NewQuotesFallbackOnly(cache) == {FallbackEmptyCache}

\* getNewQuote: the passages Math.random can pick
NewQuotes(cache) ==
    IF Len(cache) > 0 THEN {cache[i] : i \in 1..Len(cache)} ELSE {FallbackEmptyCache}

\* every mode counts down
CountsDownAlways(mode) == TRUE

\* no mode counts down
CountsDownNever(mode) == FALSE

\* line 247: the modes whose test timer counts down from the level's budget
CountsDown(mode) == mode # "story"

\* The timeout of a finished countdown: startTest()
StartTest ==
    /\ countdowns[0] > 0
    /\ countdowns' = [countdowns EXCEPT ![0] = @ - 1]
    /\ isTestActive' = TRUE
    /\ startTestBtnDisabled' = TRUE
    /\ stopTestBtnShown' = TRUE
    /\ textInputDisabled' = FALSE
    /\ textInputValue' = <<>>
    /\ charIndex' = 0
    /\ errors' = 0
    /\ result' = NoResult
    /\ currentQuote' \in NewQuotes(cachedQuotes)
    /\ IF CountsDown(selectedMode)
       THEN timeLeft' = selectedTimer /\ intervalId' = "updateTimer"
       ELSE timeLeft' = timeLeft /\ intervalId' = "elapsed"
    /\ ticks' = 0
    /\ lastEvent' = "startTest"
    /\ SessionFrame
    /\ UNCHANGED <<cachedQuotes, quotesReadyPromise, awaitingStart, selectedMode,
                   selectedTimer, levelSelect, fetchCycles, cacheAssignments>>

----------------------------------------------------------------------------
(* endTest *)

\* lines 379-408: the figures shown, with the locals they come from
Score(typedTextValue, quote, durationMs, errs) ==
    [shown |-> TRUE,
     wpm |-> Wpm(CorrectChars(typedTextValue, quote), durationMs),
     accuracy |-> Accuracy(CorrectChars(typedTextValue, quote), Len(typedTextValue)),
     errors |-> errs,
     correctChars |-> CorrectChars(typedTextValue, quote),
     totalTypedChars |-> Len(typedTextValue),
     durationMs |-> durationMs]

\* endTest() with textInput.value = typedTextValue and errors = errs; durationMs
\* is endTime - startTime.  The program leaves timeLeft as it is; nothing reads
\* it before startTest assigns it again (updateTimer runs only on the interval
\* startTest sets after the assignment), so the stale value is dropped here,
\* and the tick count with it.
EndTest(typedTextValue, errs, durationMs) ==
    /\ isTestActive' = FALSE
    /\ intervalId' = "none"
    /\ textInputDisabled' = TRUE
    /\ startTestBtnDisabled' = FALSE
    /\ stopTestBtnShown' = FALSE
    /\ result' = Score(typedTextValue, currentQuote, durationMs, errs)
    /\ textInputValue' = <<>>
    /\ currentQuote' = <<>>
    /\ timeLeft' = Undefined
    /\ ticks' = 0

\* the comparison mistyped as <
TimerExpiredLate(t) == t < 0

\* line 275
TimerExpired(t) == t <= 0

\* The test interval in a counting-down mode: updateTimer()
UpdateTimer ==
    /\ intervalId = "updateTimer"
    /\ IF TimerExpired(timeLeft - 1)
       THEN \E d \in DurationsMs : EndTest(textInputValue, errors, d)
       ELSE /\ timeLeft' = timeLeft - 1
            /\ ticks' = ticks + 1
            /\ UNCHANGED <<isTestActive, intervalId, textInputDisabled, startTestBtnDisabled,
                           stopTestBtnShown, result, textInputValue, currentQuote>>
    /\ lastEvent' = "updateTimer"
    /\ SessionFrame
    /\ UNCHANGED <<cachedQuotes, quotesReadyPromise, awaitingStart, charIndex, errors,
                   selectedMode, selectedTimer, levelSelect, countdowns, fetchCycles,
                   cacheAssignments>>

\* The test interval in story mode (lines 257-260): shows the elapsed seconds
ElapsedTick ==
    /\ intervalId = "elapsed"
    /\ lastEvent' = "elapsedTick"
    /\ SessionFrame
    /\ UNCHANGED <<cachedQuotes, quotesReadyPromise, awaitingStart, currentQuote, timeLeft,
                   intervalId, charIndex, errors, isTestActive, selectedMode, selectedTimer,
                   levelSelect, textInputValue, textInputDisabled, startTestBtnDisabled,
                   stopTestBtnShown, countdowns, result, fetchCycles, cacheAssignments,
                   ticks>>

\* a Stop button that is never hidden
StopTestBtnClickAnytime(durationMs) ==
    /\ EndTest(textInputValue, errors, durationMs)
    /\ lastEvent' = "stopClick"
    /\ SessionFrame
    /\ UNCHANGED <<cachedQuotes, quotesReadyPromise, awaitingStart, charIndex, errors,
                   selectedMode, selectedTimer, levelSelect, countdowns, fetchCycles,
                   cacheAssignments>>

\* The Stop button, lines 440-443, clicked durationMs after startTest
StopTestBtnClick(durationMs) ==
    /\ stopTestBtnShown
    /\ EndTest(textInputValue, errors, durationMs)
    /\ lastEvent' = "stopClick"
    /\ SessionFrame
    /\ UNCHANGED <<cachedQuotes, quotesReadyPromise, awaitingStart, charIndex, errors,
                   selectedMode, selectedTimer, levelSelect, countdowns, fetchCycles,
                   cacheAssignments>>

----------------------------------------------------------------------------
(* handleInput.  An `input` event is dispatched after the field has changed  *)
(* and cannot be cancelled, so the handler finds the new value in place.     *)
(* The handler tells deleteContentBackward from every other input type: one  *)
(* insertion and one other deletion stand for the rest (paste, cut, drop).   *)

\* line 289
InputRejected(mode, inputType) ==
    mode = "no-backspace" /\ inputType = "deleteContentBackward"

\* completion one character late
TestCompleteStrict(mode, index, quote) == mode # "story" /\ index > Len(quote)

\* completion that does not except story mode
TestCompleteAnyMode(mode, index, quote) == index >= Len(quote)

\* line 310
TestComplete(mode, index, quote) == mode # "story" /\ index >= Len(quote)

\* handleInput(e) with e.inputType = inputType and textInput.value = typedText
HandleInput(typedText, inputType) ==
    IF ~isTestActive \/ InputRejected(selectedMode, inputType)
    THEN /\ textInputValue' = typedText
         /\ UNCHANGED <<charIndex, errors, isTestActive, intervalId, textInputDisabled,
                        startTestBtnDisabled, stopTestBtnShown, result, currentQuote,
                        timeLeft, ticks>>
    ELSE /\ charIndex' = Len(typedText)
         /\ errors' = CountErrors(typedText, currentQuote)
         /\ IF TestComplete(selectedMode, Len(typedText), currentQuote)
            THEN \E d \in DurationsMs :
                    EndTest(typedText, CountErrors(typedText, currentQuote), d)
            ELSE /\ textInputValue' = typedText
                 /\ UNCHANGED <<isTestActive, intervalId, textInputDisabled,
                                startTestBtnDisabled, stopTestBtnShown, result,
                                currentQuote, timeLeft, ticks>>

InputFrame ==
    /\ SessionFrame
    /\ UNCHANGED <<cachedQuotes, quotesReadyPromise, awaitingStart, selectedMode, selectedTimer,
                   levelSelect, countdowns, fetchCycles, cacheAssignments>>

\* s without its character i
Without(s, i) == SubSeq(s, 1, i - 1) \o SubSeq(s, i + 1, Len(s))

\* s with c put after its first i characters
WithAt(s, i, c) == SubSeq(s, 1, i) \o <<c>> \o SubSeq(s, i + 1, Len(s))

\* A character typed with the caret after i characters
InsertText(i, c) ==
    /\ ~textInputDisabled
    /\ Len(textInputValue) < MaxTyped
    /\ i \in 0..Len(textInputValue)
    /\ HandleInput(WithAt(textInputValue, i, c), "insertText")
    /\ lastEvent' = "insertText"
    /\ InputFrame

\* line 450: whether the keydown listener cancels the key
KeydownPrevented(mode, key) == mode = "no-backspace" /\ key = "Backspace"

\* The Backspace key with the caret after character i: the keydown listener
\* (lines 449-453), then, unless it cancelled the key, the deletion and its
\* input event.
BackspaceKey(i) ==
    /\ ~textInputDisabled
    /\ i \in 1..Len(textInputValue)
    /\ IF KeydownPrevented(selectedMode, "Backspace")
       THEN /\ lastEvent' = "keydownBackspace"
            /\ UNCHANGED <<textInputValue, charIndex, errors, isTestActive, intervalId,
                           textInputDisabled, startTestBtnDisabled, stopTestBtnShown,
                           result, currentQuote, timeLeft, ticks>>
       ELSE /\ HandleInput(Without(textInputValue, i), "deleteContentBackward")
            /\ lastEvent' = "deleteContentBackward"
    /\ InputFrame

\* A backward deletion that no Backspace keydown announces (an on-screen
\* keyboard reporting key "Unidentified", Ctrl+H): only the input event
DeleteContentBackward(i) ==
    /\ ~textInputDisabled
    /\ i \in 1..Len(textInputValue)
    /\ HandleInput(Without(textInputValue, i), "deleteContentBackward")
    /\ lastEvent' = "deleteContentBackward"
    /\ InputFrame

\* The Delete key with the caret before character i
DeleteContentForward(i) ==
    /\ ~textInputDisabled
    /\ i \in 1..Len(textInputValue)
    /\ HandleInput(Without(textInputValue, i), "deleteContentForward")
    /\ lastEvent' = "deleteContentForward"
    /\ InputFrame

----------------------------------------------------------------------------

Positions == 0..MaxTyped

Next ==
    \/ FetchSettle
    \/ \E level \in Levels, mode \in Modes : StartTestBtnClick(level, mode)
    \/ \E c \in 1..COUNTDOWN_FROM : CountdownTick(c)
    \/ StartTest
    \/ UpdateTimer
    \/ ElapsedTick
    \/ \E d \in DurationsMs : StopTestBtnClick(d)
    \/ \E i \in Positions, c \in Chars : InsertText(i, c)
    \/ \E i \in Positions : BackspaceKey(i)
    \/ \E i \in Positions : DeleteContentBackward(i)
    \/ \E i \in Positions : DeleteContentForward(i)

Spec == Init /\ [][Next]_vars

\* The level the progress runs click Start with: the levels differ only in
\* the number of ticks of the budget (line 425), and the shortest stands for
\* the three.
FairLevels == {"hard"}

\* Next with the level of a click drawn from FairLevels
FairNext ==
    \/ FetchSettle
    \/ \E level \in FairLevels, mode \in Modes : StartTestBtnClick(level, mode)
    \/ \E c \in 1..COUNTDOWN_FROM : CountdownTick(c)
    \/ StartTest
    \/ UpdateTimer
    \/ ElapsedTick
    \/ \E d \in DurationsMs : StopTestBtnClick(d)
    \/ \E i \in Positions, c \in Chars : InsertText(i, c)
    \/ \E i \in Positions : BackspaceKey(i)
    \/ \E i \in Positions : DeleteContentBackward(i)
    \/ \E i \in Positions : DeleteContentForward(i)

\* The session with its timer callbacks delivered: an interval set by
\* setInterval (lines 204, 251, 257) fires again and again until it is
\* cleared, and the timeout of line 211 fires once.  Clicks, edits and the
\* network's answer are under no such obligation.
FairSpec ==
    /\ Init /\ [][FairNext]_vars
    /\ \A c \in 1..COUNTDOWN_FROM : WF_vars(CountdownTick(c))
    /\ WF_vars(StartTest)
    /\ WF_vars(UpdateTimer)
    /\ WF_vars(ElapsedTick)

\* the page from its load to the end of the fetch cycle, step by step
FetchSpec == Init /\ [][FetchNext]_vars

----------------------------------------------------------------------------
(* Scoring runs: a test under way, with a passage and a typed text drawn    *)
(* from the scoring scenarios, is stopped after one of ScoreDurationsMs.    *)

Prefixes(s) == {SubSeq(s, 1, n) : n \in 0..Len(s)}

ScorePassages == {TheCatSat, HelloWorld, FallbackEmptyCache}

ScoreTexts ==
    Prefixes(TheCatSat) \cup Prefixes(HelloWorld) \cup Prefixes(HxlloWorld)
        \cup UNION {[1..n -> Chars] : n \in 0..MaxTyped}

\* The state handleInput leaves a running test in, the passage alone cached.
ScoreInit ==
    /\ currentQuote \in ScorePassages
    /\ cachedQuotes = <<currentQuote>>
    /\ selectedMode \in Modes
    /\ textInputValue \in ScoreTexts
    /\ ~TestComplete(selectedMode, Len(textInputValue), currentQuote)
    /\ charIndex = Len(textInputValue)
    /\ errors = CountErrors(textInputValue, currentQuote)
    /\ quotesReadyPromise = "resolved"
    /\ awaitingStart = 0
    /\ levelSelect = "easy"
    /\ selectedTimer = LevelSeconds(levelSelect)
    /\ timeLeft = IF CountsDown(selectedMode) THEN selectedTimer ELSE Undefined
    /\ intervalId = IF CountsDown(selectedMode) THEN "updateTimer" ELSE "elapsed"
    /\ isTestActive = TRUE
    /\ textInputDisabled = FALSE
    /\ startTestBtnDisabled = TRUE
    /\ stopTestBtnShown = TRUE
    /\ countdowns = NoCountdowns
    /\ result = NoResult
    /\ lastEvent = IF textInputValue = <<>> THEN "startTest" ELSE "insertText"
    /\ fetchCycles = 1
    /\ cacheAssignments = 1
    /\ ticks = 0
    /\ fetchPc = "done"
    /\ docs = <<>>
    /\ settled = <<>>
    /\ potentialQuotes = <<>>
    /\ currentIndex = 0
    /\ fetchOutcome = "docs"

ScoreNext == \E d \in ScoreDurationsMs : StopTestBtnClick(d)

ScoreSpec == ScoreInit /\ [][ScoreNext]_vars

----------------------------------------------------------------------------
(* Vocabulary of the properties *)

\* events that run handleInput
InputEvents == {"insertText", "deleteContentBackward", "deleteContentForward"}

\* attempts to delete typed text
DeletionEvents == {"keydownBackspace", "deleteContentBackward", "deleteContentForward"}

\* timer callbacks
TimerEvents == {"countdownTick", "updateTimer", "elapsedTick"}

\* positions at which the typed text differs from the passage
Mismatches(typed, passage) ==
    {i \in 1..Min(Len(typed), Len(passage)) : typed[i] # passage[i]}

\* positions at which the typed text agrees with the passage
Matches(typed, passage) ==
    {i \in 1..Min(Len(typed), Len(passage)) : typed[i] = passage[i]}

\* the time budget the specification gives each level
BudgetOf(level) ==
    CASE level = "easy" -> 60 [] level = "medium" -> 45 [] level = "hard" -> 30

\* the branches of the fetch cycle that end in a fallback
FetchFailures == {"error", "nodocs", "nosuitable"}

\* live setInterval timers: the countdown intervals (one per closure whose
\* count is above 0) and the test interval
PeriodicTimers ==
    countdowns[1] + countdowns[2] + countdowns[3] + (IF intervalId = "none" THEN 0 ELSE 1)

\* the documents whose detail fetch succeeds with a cleaned length above 100
Survivors(batch) == {i \in DOMAIN batch : CleanedLength(batch[i]) > 100}

\* how often text t occurs among the texts of the documents D
AmongDocs(D, t) == Cardinality({i \in D : DocText(i) = t})

\* how often text t occurs in the sequence s
Occurrences(s, t) == Cardinality({i \in DOMAIN s : s[i] = t})

\* s holds exactly the texts of the documents D, each as often as D has it
HoldsExactly(s, D) ==
    /\ Len(s) = Cardinality(D)
    /\ \A i \in D : Occurrences(s, DocText(i)) = AmongDocs(D, DocText(i))

\* the integer nearest to num / den, halves upwards, for num >= 0 and den > 0
RoundedQuotient(num, den) == ((2 * num) + den) \div (2 * den)

----------------------------------------------------------------------------
(* C1: after every input event handled while a test is running, errors is    *)
(* the number of positions, within both the typed text and the passage, at   *)
(* which the field's content differs from the passage.                       *)
C1_ErrorCountMatchesTyped ==
    (isTestActive /\ lastEvent \in InputEvents)
        => errors = Cardinality(Mismatches(textInputValue, currentQuote))

C3_StartOnlyFromIdle == NumCountdowns + (IF isTestActive THEN 1 ELSE 0) <= 1

(* C4: in no-backspace mode, while a test is running, a deletion attempt     *)
(* leaves the typed text as it was.                                          *)
C4_NoBackspaceKeepsTyped ==
    [][(isTestActive /\ selectedMode = "no-backspace" /\ lastEvent' \in DeletionEvents)
          => textInputValue' = textInputValue]_vars

(* C5: outside story mode no test is still active after an input event that  *)
(* left the typed length at or beyond the passage length.                    *)
C5_CompletionEndsTest ==
    (isTestActive /\ selectedMode # "story" /\ lastEvent \in InputEvents)
        => Len(textInputValue) < Len(currentQuote)

\* a test that its last keystroke completed
C5_Witness ==
    /\ ~isTestActive /\ selectedMode # "story" /\ lastEvent = "insertText"
    /\ result.shown /\ result.totalTypedChars >= 2

(* C6 as stated: in story mode an input event that leaves the typed length   *)
(* at or beyond the passage length ends the test.                            *)
C6_StoryCompletionEnds ==
    ~(/\ isTestActive /\ selectedMode = "story" /\ lastEvent \in InputEvents
      /\ Len(textInputValue) >= Len(currentQuote))

(* C6, amended: in story mode no input event ends the test, whatever the     *)
(* typed length.                                                             *)
C6_StoryInputNeverEnds ==
    [][(isTestActive /\ selectedMode = "story" /\ lastEvent' \in InputEvents)
          => isTestActive']_vars

\* a story test still running with its passage typed to the end
C6_Witness ==
    /\ isTestActive /\ selectedMode = "story" /\ lastEvent = "insertText"
    /\ Len(textInputValue) >= Len(currentQuote)

(* C7: in story mode no timer callback ends the test, and the interval of    *)
(* a story test is never updateTimer.                                        *)
C7_StoryTicksNeverEnd ==
    [][/\ (isTestActive /\ selectedMode = "story" /\ lastEvent' \in TimerEvents)
             => isTestActive'
       /\ (isTestActive' /\ selectedMode' = "story") => intervalId' = "elapsed"]_vars

\* a story test that a timer tick left running
C7_Witness ==
    isTestActive /\ selectedMode = "story" /\ lastEvent = "elapsedTick" /\ levelSelect = "hard"

(* C8: in the counting-down modes a test starts with the budget of the       *)
(* level, every tick takes exactly 1 from the time left, which is never      *)
(* negative, and the tick that brings it to 0, the budget-th, ends the test. *)
C8_CountdownTimer ==
    [][/\ (lastEvent' = "startTest" /\ selectedMode' # "story")
             => timeLeft' = BudgetOf(levelSelect') /\ ticks' = 0
       /\ lastEvent' = "updateTimer"
             => /\ isTestActive /\ selectedMode # "story" /\ timeLeft >= 1
                /\ ticks + timeLeft = BudgetOf(levelSelect)
                /\ IF timeLeft = 1
                   THEN ~isTestActive' /\ result'.shown /\ ticks + 1 = BudgetOf(levelSelect)
                   ELSE isTestActive' /\ timeLeft' = timeLeft - 1 /\ ticks' = ticks + 1
       /\ timeLeft' # Undefined => timeLeft' >= 0]_vars

\* a test that ran out of time
C8_Witness ==
    ~isTestActive /\ lastEvent = "updateTimer" /\ result.shown /\ levelSelect = "easy"

(* C9: when a test is stopped, with correctChars the number of positions    *)
(* at which the typed text agrees with the passage, the wpm shown is         *)
(* (correctChars / 5) / (duration / 60) rounded to the nearest integer, or 0 *)
(* without a positive duration, and the accuracy shown is                    *)
(* correctChars / length of the typed text * 100 rounded to the nearest      *)
(* integer, or 0 for an empty text.  In milliseconds the first quotient is   *)
(* 12000 * correctChars / durationMs.                                        *)
C9_ScoreFormulas ==
    [][(isTestActive /\ lastEvent' = "stopClick")
          => LET correct == Cardinality(Matches(textInputValue, currentQuote))
                 typed == Len(textInputValue)
                 ms == result'.durationMs
             IN  /\ result'.shown
                 /\ result'.correctChars = correct
                 /\ result'.wpm = IF ms > 0 THEN RoundedQuotient(12000 * correct, ms) ELSE 0
                 /\ result'.accuracy =
                        IF typed > 0 THEN RoundedQuotient(100 * correct, typed) ELSE 0]_vars

(* C10: the batch fetch is initiated at most once and the cache is assigned  *)
(* at most once, whatever start requests are made.                           *)
C10_SingleFetchCycle == fetchCycles <= 1 /\ cacheAssignments <= 1

\* a start request made after a test, with the cache filled
C10_Witness ==
    /\ lastEvent = "startClick" /\ Len(cachedQuotes) > 0 /\ result.shown
    /\ fetchCycles = 1 /\ cacheAssignments = 1

(* C11: in every reachable state the cache holds at most 20 passages, and    *)
(* once the fetch cycle has completed it holds at least 1.                   *)
C11_CacheBounded ==
    /\ Len(cachedQuotes) <= 20
    /\ fetchPc = "done" => Len(cachedQuotes) >= 1

\* a cycle that found more texts than the cache takes
C11_Witness ==
    fetchPc = "done" /\ Len(potentialQuotes) > 20 /\ Len(cachedQuotes) = 20

(* C12: after a cycle that ended in a failure branch the promise is          *)
(* resolved, the cache is exactly one sentence, a start request begins a     *)
(* countdown and every passage drawn is that sentence.                       *)
C12_FailureFallsBack ==
    [][fetchOutcome' \in FetchFailures
          => /\ quotesReadyPromise' = "resolved"
             /\ Len(cachedQuotes') = 1
             /\ cachedQuotes'[1] \in {FallbackFetchError, FallbackNoDocs, FallbackNoSuitable}
             /\ lastEvent' = "startClick" => NumCountdowns' = NumCountdowns + 1
             /\ lastEvent' = "startTest" => currentQuote' = cachedQuotes'[1]]_vars

\* a test on the sentence left by a failed batch fetch
C12_Witness ==
    /\ fetchOutcome = "error" /\ isTestActive /\ lastEvent = "startTest"
    /\ currentQuote = FallbackFetchError

(* C13 as stated: whichever failure ended the cycle, the cache holds the     *)
(* sentence that a draw on an empty cache returns.                           *)
C13_OneFallbackSentence ==
    fetchOutcome \in FetchFailures => cachedQuotes = <<FallbackEmptyCache>>

(* C13, amended: each failure branch stores its own sentence, and these      *)
(* three and the sentence of a draw on an empty cache are four different     *)
(* strings.                                                                  *)
C13_FallbackPerBranch ==
    /\ fetchOutcome = "error" => cachedQuotes = <<FallbackFetchError>>
    /\ fetchOutcome = "nodocs" => cachedQuotes = <<FallbackNoDocs>>
    /\ fetchOutcome = "nosuitable" => cachedQuotes = <<FallbackNoSuitable>>
    /\ Cardinality({FallbackFetchError, FallbackNoDocs, FallbackNoSuitable,
                     FallbackEmptyCache}) = 4

\* a cycle whose documents all came to nothing
C13_Witness ==
    /\ fetchPc = "done" /\ fetchOutcome = "nosuitable" /\ Len(docs) > 1
    /\ cachedQuotes = <<FallbackNoSuitable>>

(* C14: no tick of the test timer occurs before the first input event of    *)
(* the test: the event that follows startTest is no test-timer tick.         *)
C14_TimerStartsAtFirstInput ==
    [][lastEvent = "startTest" => lastEvent' \notin {"updateTimer", "elapsedTick"}]_vars

(* C15: at most one periodic timer, countdown interval or test interval, is  *)
(* live in any reachable state.                                              *)
C15_OnePeriodicTimer == PeriodicTimers <= 1

(* C16: while a countdown is in progress the text input is disabled.         *)
C16_CountdownDisablesInput == NumCountdowns > 0 => textInputDisabled

(* C17: whenever startTest has run, the fetch cycle has completed, the       *)
(* cache is not empty, errors is 0, the typed text is empty and the passage  *)
(* is an element of the cache; and the passage of a running test is never    *)
(* empty.                                                                    *)
C17_RunningEntered ==
    [][/\ lastEvent' = "startTest"
             => /\ fetchPc' = "done" /\ quotesReadyPromise' = "resolved"
                /\ Len(cachedQuotes') > 0
                /\ errors' = 0 /\ textInputValue' = <<>>
                /\ \E i \in DOMAIN cachedQuotes' : currentQuote' = cachedQuotes'[i]
       /\ isTestActive' => currentQuote' # <<>>]_vars

\* a test begun on a fetched passage after an earlier test left errors
C17_Witness ==
    /\ lastEvent = "startTest" /\ isTestActive /\ fetchOutcome = "docs"
    /\ currentQuote = DocText(1) /\ errors = 0

(* C18: the cache is assigned, and the survivors are collected, only once    *)
(* no detail fetch is pending, and the survivors collected are exactly the   *)
(* documents whose detail fetch succeeded with a cleaned length above 100,   *)
(* in the order of the batch, whichever fetches failed and in whatever       *)
(* order they settled.                                                       *)
C18_DetailFailuresIsolated ==
    [][/\ (cacheAssignments' # cacheAssignments \/ lastEvent' = "allSettled")
             => \A i \in DOMAIN settled : settled[i] # "pending"
       /\ lastEvent' = "allSettled"
             => /\ HoldsExactly(potentialQuotes', Survivors(docs))
                /\ \A i \in Survivors(docs) :
                      potentialQuotes'[Cardinality({j \in Survivors(docs) : j <= i})]
                          = DocText(i)]_vars

\* survivors collected from a batch whose other documents failed
C18_Witness ==
    /\ lastEvent = "allSettled" /\ Len(docs) = 3
    /\ docs[1] = "httpError" /\ docs[2] = "long" /\ docs[3] = "null"
    /\ potentialQuotes = <<DocText(2)>>

(* C19: with n >= 1 survivors, while shuffleArray runs and afterwards the    *)
(* array holds exactly the survivors' texts (none dropped, duplicated or     *)
(* invented), and the cache assigned is its first min(n, 20) elements.       *)
C19_ShufflePermutes ==
    /\ fetchPc = "shuffle" \/ fetchOutcome = "docs"
          => /\ Cardinality(Survivors(docs)) >= 1
             /\ HoldsExactly(potentialQuotes, Survivors(docs))
    /\ fetchOutcome = "docs"
          => LET n == Cardinality(Survivors(docs))
             IN  /\ Len(cachedQuotes) = (IF n < 20 THEN n ELSE 20)
                 /\ cachedQuotes = SubSeq(potentialQuotes, 1, Len(cachedQuotes))

\* a cache in another order than the batch
C19_Witness ==
    /\ fetchPc = "done" /\ fetchOutcome = "docs" /\ Len(docs) = 3
    /\ cachedQuotes = <<DocText(3), DocText(1), DocText(2)>>

C21_FiguresConsistent ==
    [][(isTestActive /\ ~isTestActive')
          => result'.correctChars + result'.errors
                = Min(result'.totalTypedChars, Len(currentQuote))]_vars

====
